---- MODULE Spec2Model ----
(***************************************************************************)
(* django-appmail: locale normaliser, template resolver and the integrity  *)
(* guard of EmailTemplateTranslation (appmail/models.py).                  *)
(*                                                                         *)
(* A locale code is a sequence of one-character strings, so that lower(),  *)
(* replace('_', '-') and the slice [:2] are computed, not assumed.         *)
(* Template names are strings; primary keys are positive integers handed   *)
(* out by an auto-increment counter.                                       *)
(***************************************************************************)
EXTENDS Integers, Sequences, FiniteSets, TLC

\* ---------------------------------------------------------------- bounds
MaxTemplatePk == 2      \* templates ever created
MaxTransPk == 2         \* translations ever created
MaxRawLen == 3          \* length of the exhaustively enumerated raw locales

\* ------------------------------------------------------------ characters
Chars == {"e", "n", "E", "N", "-", "_"}

\* str.lower() on one ASCII character
lower(c) ==
    CASE c = "E" -> "e" [] c = "N" -> "n" [] c = "G" -> "g" [] c = "B" -> "b"
      [] c = "U" -> "u" [] c = "S" -> "s" [] c = "D" -> "d" [] c = "X" -> "x"
      [] OTHER -> c

upper(c) ==
    CASE c = "e" -> "E" [] c = "n" -> "N" [] c = "g" -> "G" [] c = "b" -> "B"
      [] c = "u" -> "U" [] c = "s" -> "S" [] c = "d" -> "D" [] c = "x" -> "X"
      [] OTHER -> c

\* locale_code.lower().replace('_', '-')
lower_replace(s) == [i \in 1..Len(s) |-> IF s[i] = "_" THEN "-" ELSE lower(s[i])]

\* locale_code[:2]
slice2(s) == IF Len(s) <= 2 THEN s ELSE SubSeq(s, 1, 2)

\* locale codes used by the settings and the store
en == <<"e", "n">>
de == <<"d", "e">>
en_gb == <<"e", "n", "-", "g", "b">>
en_us == <<"e", "n", "-", "u", "s">>
es_mx == <<"e", "s", "-", "m", "x">>
de_xx == <<"d", "e", "-", "x", "x">>
empty == <<>>

\* every spelling of a code: each letter in either case, each separator
\* as '-' or '_'
RECURSIVE Spellings(_)
Spellings(code) ==
    IF code = <<>> THEN {<<>>}
    ELSE LET first == IF Head(code) = "-" THEN {"-", "_"}
                      ELSE {Head(code), upper(Head(code))}
         IN  {<<c>> \o rest : c \in first, rest \in Spellings(Tail(code))}

SeqsUpTo(n) == UNION {[1..k -> Chars] : k \in 0..n}

\* raw locale strings handed to the normaliser
RawLocales ==
    SeqsUpTo(MaxRawLen) \cup Spellings(en_gb) \cup Spellings(en_us)
        \cup Spellings(de_xx) \cup Spellings(de)


\* ------------------------------------------------------------- settings
\* codes of settings.LANGUAGES that matter here (Django's global default
\* list has 'en', 'en-gb', 'de', 'es-mx' and no 'en-us')
DjangoLanguages == {en, en_gb, de, es_mx}

\* values settings.LANGUAGE_CODE takes (test_app/settings.py, the tests'
\* override_settings)
DefaultChoices == {en_us, es_mx, de}

\* values of settings.APPMAIL_TEMPLATE_LOOKUP_LOGLEVEL; "unset" is the
\* attribute missing from settings
LogLevelChoices == {"unset", "ERROR", "DEBUG"}

\* names, stored locales and requested locales of the store operations
Names == {"a", "b"}
TemplateLocales == {empty, en}
TranslationLocales == {empty, en, de}
RequestLocales == {empty, en, de, <<"d", "e", "_", "X">>}

VARIABLES
    LANGUAGES,          \* settings.LANGUAGES, as the set of its codes
    LANGUAGE_CODE,      \* settings.LANGUAGE_CODE
    LOGLEVEL,           \* settings.APPMAIL_TEMPLATE_LOOKUP_LOGLEVEL
    templates,          \* EmailTemplate table: pk -> row
    translations,       \* EmailTemplateTranslation table: pk -> row
    nextTemplatePk,     \* auto-increment counter of EmailTemplate
    nextTransPk,        \* auto-increment counter of EmailTemplateTranslation
    res,                \* the last call: operation, arguments, outcome
    locale_code_default,\* default of get_by_name_then_locale's locale_code
    writers             \* concurrent saves of new translations, by writer

vars == <<LANGUAGES, LANGUAGE_CODE, LOGLEVEL, templates, translations,
          nextTemplatePk, nextTransPk, res, locale_code_default, writers>>

settings == <<LANGUAGES, LANGUAGE_CODE, LOGLEVEL>>
store == <<templates, translations, nextTemplatePk, nextTransPk>>
callers == <<locale_code_default, writers>>

\* the two requests that save concurrently, and a request that has not begun
Writers == {1, 2}
IdleWriter == [pc |-> "idle", parent_template_id |-> 0, locale |-> empty,
               outcome |-> "none"]

NoArgs == [none |-> TRUE]
NoRes == [op |-> "none", args |-> NoArgs, outcome |-> "none", ret |-> NoArgs, log |-> <<>>]

\* the level with "ERROR" as the default of the getattr
log_level_default_error ==
    CASE LOGLEVEL = "unset" -> "error"
      [] LOGLEVEL = "WARNING" -> "warning"
      [] LOGLEVEL = "ERROR" -> "error"
      [] LOGLEVEL = "DEBUG" -> "debug"

\* getattr(settings, "APPMAIL_TEMPLATE_LOOKUP_LOGLEVEL", "WARNING").lower()
log_level ==
    CASE LOGLEVEL = "unset" -> "warning"
      [] LOGLEVEL = "WARNING" -> "warning"
      [] LOGLEVEL = "ERROR" -> "error"
      [] LOGLEVEL = "DEBUG" -> "debug"

\* ---------------------------------------------------- locale normaliser
\* the normaliser without the replace('_', '-') of line 64
clean_no_replace(locale_code) ==
    LET cleaned_locale_code == [i \in 1..Len(locale_code) |-> lower(locale_code[i])]
        core_locale_code == slice2(locale_code)
    IN  IF cleaned_locale_code \in LANGUAGES
        THEN [out |-> cleaned_locale_code, log |-> <<>>]
        ELSE IF core_locale_code \in LANGUAGES
        THEN [out |-> core_locale_code,
              log |-> <<[level |-> log_level, kind |-> "core",
                         locale_code |-> locale_code, used |-> core_locale_code]>>]
        ELSE [out |-> LANGUAGE_CODE, log |-> <<>>]

\* EmailTemplateManager._clean_language_code_input: the returned code and
\* the log events of the call
clean_language_code_input(locale_code) ==
    LET cleaned_locale_code == lower_replace(locale_code)
        core_locale_code == slice2(locale_code)
    IN  IF cleaned_locale_code \in LANGUAGES
        THEN [out |-> cleaned_locale_code, log |-> <<>>]
        ELSE IF core_locale_code \in LANGUAGES
        THEN [out |-> core_locale_code,
              log |-> <<[level |-> log_level, kind |-> "core",
                         locale_code |-> locale_code, used |-> core_locale_code]>>]
        ELSE [out |-> LANGUAGE_CODE, log |-> <<>>]

\* a direct call of the normaliser
CleanCall(locale_code) ==
    LET r == clean_language_code_input(locale_code)
    IN  /\ res' = [op |-> "clean", args |-> [locale_code |-> locale_code],
                   outcome |-> "ok", ret |-> [code |-> r.out], log |-> r.log]
        /\ UNCHANGED <<callers, settings, store>>

\* ------------------------------------------------------------ content
\* html bodies and caller-supplied plaintext bodies; "" is a blank field
HtmlChoices == {"<p>x</p>", "<h1>y</h1>"}
TextChoices == {"", "t"}

\* html2text.html2text, on the bodies above (tests/test_models.py: a
\* paragraph becomes its text, a heading gets a '# ' prefix, blocks end in
\* a blank line)
html2text_func(html) ==
    CASE html = "<p>x</p>" -> "x\n\n"
      [] html = "<h1>y</h1>" -> "# y\n\n"
      [] OTHER -> "\n\n"

None == 0   \* pk of an instance that has no row: `not self.pk` holds

\* the save that regenerates a blank text on every save, not only the first
text_regenerated_when_blank(pk, html_template, text_template) ==
    IF text_template = ""
    THEN html2text_func(html_template)
    ELSE text_template

\* EmailTemplateContentBase.save, lines 194-195: the text_template the
\* instance carries into the INSERT or UPDATE
text_to_store(pk, html_template, text_template) ==
    IF pk = None /\ text_template = ""
    THEN html2text_func(html_template)
    ELSE text_template

\* --------------------------------------------------------------- tables
TemplatePks == DOMAIN templates
TransPks == DOMAIN translations

without(table, pk) == [p \in DOMAIN table \ {pk} |-> table[p]]
with(table, pk, row) == [p \in DOMAIN table \cup {pk} |-> IF p = pk THEN row ELSE table[p]]

\* template.translations: the rows whose foreign key is the template
translations_of(parent) == {q \in TransPks : translations[q].parent_template_id = parent}

\* ------------------------------------------------------ integrity guard
\* the guard with the exclude(pk=self.pk) of lines 312-314 left out
enforce_without_exclude(pk, parent_template_id, locale) ==
    IF locale # empty
    THEN LET base_qs == {q \in TransPks :
                           /\ translations[q].parent_template_id = parent_template_id
                           /\ translations[q].locale = locale}
         IN  IF base_qs # {} THEN "DuplicateTranslation"
             ELSE IF locale = templates[parent_template_id].locale
             THEN "SameLocaleAsParent"
             ELSE "ok"
    ELSE "ok"

\* EmailTemplateTranslation._enforce_integrity: "ok", or the IntegrityError
\* it raises
enforce_integrity(pk, parent_template_id, locale) ==
    IF locale # empty
    THEN LET same == {q \in TransPks :
                        /\ translations[q].parent_template_id = parent_template_id
                        /\ translations[q].locale = locale}
             base_qs == IF pk # None THEN same \ {pk} ELSE same
         IN  IF base_qs # {} THEN "DuplicateTranslation"
             ELSE IF locale = templates[parent_template_id].locale
             THEN "SameLocaleAsParent"
             ELSE "ok"
    ELSE "ok"

\* ------------------------------------------------------------ EmailTemplate
\* the save of a template whose name field lacks unique=True
EmailTemplate_save_not_unique(pk, name, locale, html_template, text_template) ==
    LET newpk == IF pk = None THEN nextTemplatePk ELSE pk
    IN  /\ templates' = with(templates, newpk,
                             [name |-> name, locale |-> locale,
                              html_template |-> html_template,
                              text_template |-> text_to_store(pk, html_template, text_template)])
        /\ nextTemplatePk' = IF pk = None THEN nextTemplatePk + 1 ELSE nextTemplatePk
        /\ res' = [op |-> "save_template",
                   args |-> [pk |-> pk, name |-> name, locale |-> locale,
                             html_template |-> html_template,
                             text_template |-> text_template],
                   outcome |-> "ok", ret |-> [pk |-> newpk], log |-> <<>>]
        /\ UNCHANGED <<callers, settings, translations, nextTransPk>>

\* EmailTemplate.save of a new instance (pk None) or of a stored row; the
\* unique=True of name is the database's
EmailTemplate_save(pk, name, locale, html_template, text_template) ==
    LET text == text_to_store(pk, html_template, text_template)
        row == [name |-> name, locale |-> locale,
                html_template |-> html_template, text_template |-> text]
        clash == \E p \in TemplatePks \ {pk} : templates[p].name = name
        newpk == IF pk = None THEN nextTemplatePk ELSE pk
        args == [pk |-> pk, name |-> name, locale |-> locale,
                 html_template |-> html_template, text_template |-> text_template]
    IN  IF clash
        THEN /\ res' = [op |-> "save_template", args |-> args,
                        outcome |-> "IntegrityError", ret |-> NoArgs, log |-> <<>>]
             /\ UNCHANGED <<callers, settings, store>>
        ELSE /\ templates' = with(templates, newpk, row)
             /\ nextTemplatePk' = IF pk = None THEN nextTemplatePk + 1 ELSE nextTemplatePk
             /\ res' = [op |-> "save_template", args |-> args,
                        outcome |-> "ok", ret |-> [pk |-> newpk], log |-> <<>>]
             /\ UNCHANGED <<callers, settings, translations, nextTransPk>>

CreateTemplate(name, locale, html_template, text_template) ==
    /\ nextTemplatePk <= MaxTemplatePk
    /\ EmailTemplate_save(None, name, locale, html_template, text_template)

UpdateTemplate(pk, name, locale, html_template, text_template) ==
    /\ pk \in TemplatePks
    /\ EmailTemplate_save(pk, name, locale, html_template, text_template)

\* EmailTemplate.delete: the foreign key cascades to the translations
DeleteTemplate(pk) ==
    /\ pk \in TemplatePks
    /\ templates' = without(templates, pk)
    /\ translations' = [q \in TransPks \ translations_of(pk) |-> translations[q]]
    /\ res' = [op |-> "delete_template", args |-> [pk |-> pk],
               outcome |-> "ok", ret |-> NoArgs, log |-> <<>>]
    /\ UNCHANGED <<callers, settings, nextTemplatePk, nextTransPk>>

\* ------------------------------------------------- EmailTemplateTranslation
\* EmailTemplateTranslation.save: the guard, then the base class's save
EmailTemplateTranslation_save(pk, parent_template_id, locale, html_template, text_template) ==
    LET verdict == enforce_integrity(pk, parent_template_id, locale)
        text == text_to_store(pk, html_template, text_template)
        row == [parent_template_id |-> parent_template_id, locale |-> locale,
                html_template |-> html_template, text_template |-> text]
        newpk == IF pk = None THEN nextTransPk ELSE pk
        args == [pk |-> pk, parent_template_id |-> parent_template_id, locale |-> locale,
                 html_template |-> html_template, text_template |-> text_template]
    IN  IF verdict # "ok"
        THEN /\ res' = [op |-> "save_translation", args |-> args,
                        outcome |-> verdict, ret |-> NoArgs, log |-> <<>>]
             /\ UNCHANGED <<callers, settings, store>>
        ELSE /\ translations' = with(translations, newpk, row)
             /\ nextTransPk' = IF pk = None THEN nextTransPk + 1 ELSE nextTransPk
             /\ res' = [op |-> "save_translation", args |-> args,
                        outcome |-> "ok", ret |-> [pk |-> newpk], log |-> <<>>]
             /\ UNCHANGED <<callers, settings, templates, nextTemplatePk>>

CreateTranslation(parent_template_id, locale, html_template, text_template) ==
    /\ nextTransPk <= MaxTransPk
    /\ parent_template_id \in TemplatePks
    /\ EmailTemplateTranslation_save(None, parent_template_id, locale,
                                     html_template, text_template)

UpdateTranslation(pk, parent_template_id, locale, html_template, text_template) ==
    /\ pk \in TransPks
    /\ parent_template_id \in TemplatePks
    /\ EmailTemplateTranslation_save(pk, parent_template_id, locale,
                                     html_template, text_template)

DeleteTranslation(pk) ==
    /\ pk \in TransPks
    /\ translations' = without(translations, pk)
    /\ res' = [op |-> "delete_translation", args |-> [pk |-> pk],
               outcome |-> "ok", ret |-> NoArgs, log |-> <<>>]
    /\ UNCHANGED <<callers, settings, templates, nextTemplatePk, nextTransPk>>

\* ------------------------------------------------------------- resolver
\* the resolver that lets a missing translation end the call instead of
\* falling back to the primary template
get_without_fallback(name, locale_code) ==
    LET cleaned == clean_language_code_input(locale_code)
        named == {p \in TemplatePks : templates[p].name = name}
    IN  IF named = {}
        THEN [outcome |-> "EmailTemplateDoesNotExist", ret |-> NoArgs, log |-> cleaned.log]
        ELSE LET template == CHOOSE p \in named : TRUE
                 found == {q \in translations_of(template) :
                             translations[q].locale = cleaned.out}
             IN  IF templates[template].locale = cleaned.out
                 THEN [outcome |-> "ok", ret |-> [kind |-> "template", pk |-> template],
                       log |-> cleaned.log]
                 ELSE IF found # {}
                 THEN [outcome |-> "ok",
                       ret |-> [kind |-> "translation", pk |-> CHOOSE q \in found : TRUE],
                       log |-> cleaned.log]
                 ELSE [outcome |-> "EmailTemplateDoesNotExist", ret |-> NoArgs,
                       log |-> cleaned.log]

\* the resolver that asks for the translation before it compares the
\* template's own locale
get_translation_first(name, locale_code) ==
    LET cleaned == clean_language_code_input(locale_code)
        named == {p \in TemplatePks : templates[p].name = name}
    IN  IF named = {}
        THEN [outcome |-> "EmailTemplateDoesNotExist", ret |-> NoArgs, log |-> cleaned.log]
        ELSE LET template == CHOOSE p \in named : TRUE
                 found == {q \in translations_of(template) :
                             translations[q].locale = cleaned.out}
             IN  IF found # {}
                 THEN [outcome |-> "ok",
                       ret |-> [kind |-> "translation", pk |-> CHOOSE q \in found : TRUE],
                       log |-> cleaned.log]
                 ELSE [outcome |-> "ok", ret |-> [kind |-> "template", pk |-> template],
                       log |-> cleaned.log]

\* EmailTemplateManager.get_by_name_then_locale: outcome, returned record
\* and log events.  QuerySet.get raises DoesNotExist on no row and
\* MultipleObjectsReturned on several.
get_by_name_then_locale(name, locale_code) ==
    LET cleaned == clean_language_code_input(locale_code)
        cleaned_locale_code == cleaned.out
        named == {p \in TemplatePks : templates[p].name = name}
    IN  IF named = {}
        THEN [outcome |-> "EmailTemplateDoesNotExist", ret |-> NoArgs, log |-> cleaned.log]
        ELSE IF Cardinality(named) > 1
        THEN [outcome |-> "MultipleObjectsReturned", ret |-> NoArgs, log |-> cleaned.log]
        ELSE LET template == CHOOSE p \in named : TRUE
                 found == {q \in translations_of(template) :
                             translations[q].locale = cleaned_locale_code}
             IN  IF templates[template].locale # cleaned_locale_code
                 THEN IF Cardinality(found) = 1
                      THEN [outcome |-> "ok",
                            ret |-> [kind |-> "translation", pk |-> CHOOSE q \in found : TRUE],
                            log |-> cleaned.log]
                      ELSE IF found # {}
                      THEN [outcome |-> "MultipleObjectsReturned", ret |-> NoArgs,
                            log |-> cleaned.log]
                      ELSE [outcome |-> "ok",
                            ret |-> [kind |-> "template", pk |-> template],
                            log |-> Append(cleaned.log,
                                      [level |-> log_level, kind |-> "primary",
                                       locale_code |-> locale_code, used |-> name])]
                 ELSE [outcome |-> "ok", ret |-> [kind |-> "template", pk |-> template],
                       log |-> cleaned.log]

GetCall(name, locale_code) ==
    LET r == get_by_name_then_locale(name, locale_code)
    IN  /\ res' = [op |-> "get", args |-> [name |-> name, locale_code |-> locale_code],
                   outcome |-> r.outcome, ret |-> r.ret, log |-> r.log]
        /\ UNCHANGED <<callers, settings, store>>

\* --------------------------------------------------- the template store
\* the store's rows carry one fixed content here; SpecContent varies it
FixedHtml == "<p>x</p>"
FixedText == "t"

Init ==
    /\ LANGUAGES = DjangoLanguages
    /\ LANGUAGE_CODE = en_us
    /\ LOGLEVEL = "unset"
    /\ templates = <<>>
    /\ translations = <<>>
    /\ nextTemplatePk = 1
    /\ nextTransPk = 1
    /\ res = NoRes
    /\ locale_code_default = LANGUAGE_CODE
    /\ writers = [w \in Writers |-> IdleWriter]

Next ==
    \/ \E name \in Names, locale \in TemplateLocales :
          CreateTemplate(name, locale, FixedHtml, FixedText)
    \/ \E pk \in TemplatePks, name \in Names, locale \in TemplateLocales :
          UpdateTemplate(pk, name, locale, FixedHtml, FixedText)
    \/ \E pk \in TemplatePks : DeleteTemplate(pk)
    \/ \E parent \in TemplatePks, locale \in TranslationLocales :
          CreateTranslation(parent, locale, FixedHtml, FixedText)
    \/ \E pk \in TransPks, parent \in TemplatePks, locale \in TranslationLocales :
          UpdateTranslation(pk, parent, locale, FixedHtml, FixedText)
    \/ \E pk \in TransPks : DeleteTranslation(pk)
    \/ \E name \in Names, locale_code \in RequestLocales : GetCall(name, locale_code)

Spec == Init /\ [][Next]_vars

\* ------------------------------------------------ the content of the rows
\* one template name, one translation locale that the guard accepts and one
\* it rejects; html and text bodies vary
NextContent ==
    \/ \E html \in HtmlChoices, text \in TextChoices :
          CreateTemplate("a", en, html, text)
    \/ \E pk \in TemplatePks, html \in HtmlChoices, text \in TextChoices :
          UpdateTemplate(pk, "a", en, html, text)
    \/ \E pk \in TemplatePks : DeleteTemplate(pk)
    \/ \E parent \in TemplatePks, locale \in {de, en}, html \in HtmlChoices,
          text \in TextChoices :
          CreateTranslation(parent, locale, html, text)
    \/ \E pk \in TransPks, html \in HtmlChoices, text \in TextChoices :
          UpdateTranslation(pk, translations[pk].parent_template_id, de, html, text)
    \/ \E pk \in TransPks : DeleteTranslation(pk)

SpecContent == Init /\ [][NextContent]_vars

\* ------------------------------------------------ settings that change
\* get_by_name_then_locale(name): the call that leaves locale_code out.  The
\* default of the parameter is the value settings.LANGUAGE_CODE had when the
\* def statement ran, at import.
GetDefaultCall(name) ==
    LET r == get_by_name_then_locale(name, locale_code_default)
    IN  /\ res' = [op |-> "get_default", args |-> [name |-> name],
                   outcome |-> r.outcome, ret |-> r.ret, log |-> r.log]
        /\ UNCHANGED <<callers, settings, store>>

\* override_settings(LANGUAGE_CODE=code)
OverrideSettings(code) ==
    /\ code # LANGUAGE_CODE
    /\ LANGUAGE_CODE' = code
    /\ res' = [op |-> "override_settings", args |-> [code |-> code],
               outcome |-> "ok", ret |-> NoArgs, log |-> <<>>]
    /\ UNCHANGED <<callers, LANGUAGES, LOGLEVEL, store>>

\* one template in 'en', its translations, a configured default that changes
\* after import, and resolver calls with and without a locale
NextSettings ==
    \/ CreateTemplate("a", en, FixedHtml, FixedText)
    \/ \E parent \in TemplatePks, locale \in {de, es_mx} :
          CreateTranslation(parent, locale, FixedHtml, FixedText)
    \/ \E pk \in TransPks : DeleteTranslation(pk)
    \/ \E code \in DefaultChoices : OverrideSettings(code)
    \/ \E locale_code \in RequestLocales \cup DefaultChoices : GetCall("a", locale_code)
    \/ GetDefaultCall("a")

SpecSettings == Init /\ [][NextSettings]_vars

\* ------------------------------------------- two saves at the same time
\* Each writer runs EmailTemplateTranslation.save of a new instance as two
\* database steps: the SELECT of _enforce_integrity (with the comparison to
\* the parent's locale), then the INSERT of the base class's save.  Steps of
\* the two writers interleave.

\* the locales the writers save in
WriterLocales == {en, de}

\* trans_template = EmailTemplateTranslation(parent_template=..., locale=...)
WriterBegin(w, parent_template_id, locale) ==
    /\ writers[w].pc = "idle"
    /\ parent_template_id \in TemplatePks
    /\ writers' = [writers EXCEPT ![w] = [pc |-> "new",
                                           parent_template_id |-> parent_template_id,
                                           locale |-> locale, outcome |-> "none"]]
    /\ UNCHANGED <<settings, store, res, locale_code_default>>

\* self._enforce_integrity(), against the rows committed so far
WriterCheck(w) ==
    LET verdict == enforce_integrity(None, writers[w].parent_template_id, writers[w].locale)
    IN  /\ writers[w].pc = "new"
        /\ writers' = [writers EXCEPT ![w].pc = IF verdict = "ok" THEN "checked" ELSE "raised",
                                       ![w].outcome = verdict]
        /\ UNCHANGED <<settings, store, res, locale_code_default>>

\* super().save(): the INSERT; Meta declares no unique_together, so the
\* table has no constraint that could refuse the row
WriterInsert(w) ==
    /\ writers[w].pc = "checked"
    /\ nextTransPk <= MaxTransPk
    /\ translations' = with(translations, nextTransPk,
                            [parent_template_id |-> writers[w].parent_template_id,
                             locale |-> writers[w].locale,
                             html_template |-> FixedHtml,
                             text_template |-> text_to_store(None, FixedHtml, FixedText)])
    /\ nextTransPk' = nextTransPk + 1
    /\ writers' = [writers EXCEPT ![w].pc = "saved"]
    /\ UNCHANGED <<settings, templates, nextTemplatePk, res, locale_code_default>>

\* two templates are stored and no translation yet
InitRace ==
    /\ LANGUAGES = DjangoLanguages
    /\ LANGUAGE_CODE = en_us
    /\ LOGLEVEL = "unset"
    /\ templates = <<[name |-> "a", locale |-> en,
                      html_template |-> FixedHtml, text_template |-> FixedText],
                     [name |-> "b", locale |-> empty,
                      html_template |-> FixedHtml, text_template |-> FixedText]>>
    /\ translations = <<>>
    /\ nextTemplatePk = 3
    /\ nextTransPk = 1
    /\ res = NoRes
    /\ locale_code_default = LANGUAGE_CODE
    /\ writers = [w \in Writers |-> IdleWriter]

NextRace ==
    \/ \E w \in Writers, parent \in TemplatePks, locale \in WriterLocales :
          WriterBegin(w, parent, locale)
    \/ \E w \in Writers : WriterCheck(w)
    \/ \E w \in Writers : WriterInsert(w)

SpecRace == InitRace /\ [][NextRace]_vars

\* ------------------------------------------ the normaliser on its own
InitClean ==
    /\ LANGUAGES \in SUBSET DjangoLanguages
    /\ LANGUAGE_CODE \in DefaultChoices
    /\ LOGLEVEL \in LogLevelChoices
    /\ templates = <<>>
    /\ translations = <<>>
    /\ nextTemplatePk = 1
    /\ nextTransPk = 1
    /\ res = NoRes
    /\ locale_code_default = LANGUAGE_CODE
    /\ writers = [w \in Writers |-> IdleWriter]

\* one call per drawn configuration: the normaliser keeps no state
NextClean == \E locale_code \in RawLocales : res.op = "none" /\ CleanCall(locale_code)

SpecClean == InitClean /\ [][NextClean]_vars

\* C8: a call of the normaliser returns the lowercased, hyphenated input
\* when that is a supported code; otherwise the first two characters of the
\* raw input when they are a supported code; otherwise
\* settings.LANGUAGE_CODE.  With en and en-gb supported and en-us not, every
\* spelling of en-gb gives en-gb and every lower/upper-region spelling of
\* en-us that starts with "en" gives en.
CleanThreeBranches ==
    res.op = "clean" =>
        LET raw == res.args.locale_code
            form == lower_replace(raw)
            out == res.ret.code
        IN  /\ form \in LANGUAGES => out = form
            /\ (form \notin LANGUAGES /\ slice2(raw) \in LANGUAGES) => out = slice2(raw)
            /\ (form \notin LANGUAGES /\ slice2(raw) \notin LANGUAGES) => out = LANGUAGE_CODE
            /\ (en \in LANGUAGES /\ en_gb \in LANGUAGES /\ en_us \notin LANGUAGES) =>
                /\ raw \in {<<"e", "n", "_", "G", "B">>, <<"e", "n", "-", "G", "B">>, en_gb}
                     => out = en_gb
                /\ raw \in {<<"e", "n", "-", "U", "S">>, <<"e", "n", "_", "U", "S">>, en_us}
                     => out = en

\* the three branches and the two examples all occur
CleanThreeBranchesWitness ==
    /\ res.op = "clean"
    /\ res.args.locale_code = <<"e", "n", "_", "U", "S">>
    /\ en \in LANGUAGES /\ en_gb \in LANGUAGES
    /\ res.ret.code = en

\* C9: two raw locales that differ only in letter case and in '_' versus
\* '-' normalise to the same code
CleanSpellingInsensitive ==
    res.op = "clean" =>
        \A other \in RawLocales :
            lower_replace(other) = lower_replace(res.args.locale_code)
                => clean_language_code_input(other).out = res.ret.code


CleanIdempotent ==
    res.op = "clean" =>
        clean_language_code_input(res.ret.code).out = res.ret.code

\* ================================================= the template store
\* the stored translations other than `self` that have this parent and locale
siblings_at(self, parent_template_id, locale) ==
    {q \in TransPks \ {self} :
        /\ translations[q].parent_template_id = parent_template_id
        /\ translations[q].locale = locale}

\* C1: no two distinct stored translations have the same parent template
\* and the same locale
UniqueTranslationLocales ==
    \A q1 \in TransPks, q2 \in TransPks :
        (q1 # q2 /\ translations[q1].parent_template_id = translations[q2].parent_template_id)
            => translations[q1].locale # translations[q2].locale

\* C2: no stored translation has the locale of its parent template
NoTranslationInParentLocale ==
    \A q \in TransPks :
        translations[q].locale # templates[translations[q].parent_template_id].locale

\* C3: a save of a translation whose parent and locale are those of a
\* different stored translation fails with DuplicateTranslation and leaves
\* the tables as they were
DuplicateSaveRejected ==
    [][(/\ res'.op = "save_translation"
        /\ siblings_at(res'.args.pk, res'.args.parent_template_id, res'.args.locale) # {})
       => (/\ res'.outcome = "DuplicateTranslation"
           /\ templates' = templates
           /\ translations' = translations)]_vars

\* C4: a save of a translation in the current locale of its parent, no
\* sibling holding that locale, fails with SameLocaleAsParent and leaves the
\* tables as they were
SameLocaleSaveRejected ==
    [][(/\ res'.op = "save_translation"
        /\ res'.args.locale = templates[res'.args.parent_template_id].locale
        /\ siblings_at(res'.args.pk, res'.args.parent_template_id, res'.args.locale) = {})
       => (/\ res'.outcome = "SameLocaleAsParent"
           /\ templates' = templates
           /\ translations' = translations)]_vars

\* C5: re-saving a stored translation with its parent and locale unchanged
\* never fails with DuplicateTranslation when it is the only translation of
\* its (parent, locale), and succeeds when moreover its locale is not its
\* parent's
ResaveSucceeds ==
    [][(/\ res'.op = "save_translation"
        /\ res'.args.pk \in TransPks
        /\ res'.args.parent_template_id = translations[res'.args.pk].parent_template_id
        /\ res'.args.locale = translations[res'.args.pk].locale
        /\ siblings_at(res'.args.pk, res'.args.parent_template_id, res'.args.locale) = {})
       => (/\ res'.outcome # "DuplicateTranslation"
           /\ res'.args.locale # templates[res'.args.parent_template_id].locale
                => (res'.outcome = "ok" /\ res'.ret.pk = res'.args.pk))]_vars

\* a stored translation, alone at its (parent, locale), was re-saved unchanged
ResaveSucceedsWitness ==
    /\ res.op = "save_translation"
    /\ res.outcome = "ok"
    /\ res.args.pk \in TransPks
    /\ res.args.locale = de
    /\ Cardinality(TransPks) = 2
    /\ \A q \in TransPks : translations[q].parent_template_id = res.args.parent_template_id

\* the templates named as the last resolver call asked
named_templates == {p \in TemplatePks : templates[p].name = res.args.name}

\* C6: get_by_name_then_locale fails exactly when no template has the
\* requested name, the failure is EmailTemplateDoesNotExist, and with such
\* a template it returns a stored record
NotFoundOnlyForUnknownName ==
    res.op = "get" =>
        /\ res.outcome \in {"ok", "EmailTemplateDoesNotExist"}
        /\ res.outcome = "EmailTemplateDoesNotExist" <=> named_templates = {}
        /\ res.outcome = "ok" =>
             \/ res.ret.kind = "template" /\ res.ret.pk \in TemplatePks
             \/ res.ret.kind = "translation" /\ res.ret.pk \in TransPks

\* a known name resolved although neither the template nor a translation
\* has the requested locale, with two translations sharing the blank locale
NotFoundOnlyForUnknownNameWitness ==
    /\ res.op = "get"
    /\ res.outcome = "ok"
    /\ res.args.locale_code = empty
    /\ \E q1 \in TransPks, q2 \in TransPks :
          /\ q1 # q2
          /\ translations[q1].locale = empty /\ translations[q2].locale = empty
          /\ translations[q1].parent_template_id = translations[q2].parent_template_id
          /\ translations[q1].parent_template_id \in named_templates

\* C7: with T the template of the requested name and L the normalised
\* requested locale, the call returns T when T.locale = L, else the
\* translation of T in L when there is one, else T
ResolutionOrder ==
    (res.op = "get" /\ named_templates # {}) =>
        LET T == CHOOSE p \in named_templates : TRUE
            L == clean_language_code_input(res.args.locale_code).out
            inL == {q \in TransPks : /\ translations[q].parent_template_id = T
                                     /\ translations[q].locale = L}
        IN  /\ res.outcome = "ok"
            /\ templates[T].locale = L => res.ret = [kind |-> "template", pk |-> T]
            /\ (templates[T].locale # L /\ inL # {}) =>
                   (res.ret.kind = "translation" /\ res.ret.pk \in inL)
            /\ (templates[T].locale # L /\ inL = {}) => res.ret = [kind |-> "template", pk |-> T]
            /\ res.ret.kind = "translation" => translations[res.ret.pk].parent_template_id = T

\* the template is returned for its own locale although it has a translation
\* in that locale, and another template has one too
ResolutionOrderWitness ==
    /\ res.op = "get"
    /\ res.outcome = "ok"
    /\ res.ret.kind = "template"
    /\ templates[res.ret.pk].locale = en
    /\ res.args.locale_code = en
    /\ \E q \in TransPks : /\ translations[q].parent_template_id = res.ret.pk
                           /\ translations[q].locale = en
    /\ \E q \in TransPks : /\ translations[q].parent_template_id # res.ret.pk
                           /\ translations[q].locale = en

\* C11: creating a template under the name of a stored template fails with
\* an IntegrityError whatever the two locales are and leaves the tables as
\* they were, and after every step no two templates have the same name
UniqueTemplateNames ==
    [][/\ (/\ res'.op = "save_template"
           /\ res'.args.pk = None
           /\ \E p \in TemplatePks : templates[p].name = res'.args.name)
          => (/\ res'.outcome = "IntegrityError"
              /\ templates' = templates
              /\ translations' = translations)
       /\ \A p1 \in DOMAIN templates', p2 \in DOMAIN templates' :
             p1 # p2 => templates'[p1].name # templates'[p2].name]_vars

\* a new template was refused for its name, its locale differing from that
\* of the stored template of that name
UniqueTemplateNamesWitness ==
    /\ res.op = "save_template"
    /\ res.args.pk = None
    /\ res.outcome = "IntegrityError"
    /\ \E p \in TemplatePks : /\ templates[p].name = res.args.name
                               /\ templates[p].locale # res.args.locale

\* ================================================ the content of the rows
\* C10: a successful save stores the conversion of html_template as
\* text_template exactly when the instance had no row yet and its
\* text_template was blank; every other save stores the text_template it was
\* given, blank or not
saved_row ==
    IF res.op = "save_template" THEN templates[res.ret.pk] ELSE translations[res.ret.pk]

TextDerivedOnFirstSaveOnly ==
    (res.op \in {"save_template", "save_translation"} /\ res.outcome = "ok") =>
        /\ (res.args.pk = None /\ res.args.text_template = "")
              => saved_row.text_template = html2text_func(res.args.html_template)
        /\ (res.args.pk # None \/ res.args.text_template # "")
              => saved_row.text_template = res.args.text_template
        /\ saved_row.html_template = res.args.html_template

\* a stored translation whose text had been derived was saved again with a
\* blank text, and the row's text is blank
TextDerivedOnFirstSaveOnlyWitness ==
    /\ res.op = "save_translation"
    /\ res.outcome = "ok"
    /\ res.args.pk # None
    /\ res.args.text_template = ""
    /\ translations[res.args.pk].text_template = ""
    /\ \E p \in TemplatePks : templates[p].text_template = html2text_func(templates[p].html_template)


\* ================================================ two saves at the same time
\* C12: of two writers that save a new translation for the same parent and
\* locale, at most one has its row persisted, and no two stored translations
\* have the same parent and locale
RaceKeepsTranslationsUnique ==
    /\ \A w1 \in Writers, w2 \in Writers :
          (/\ w1 # w2
           /\ writers[w1].parent_template_id = writers[w2].parent_template_id
           /\ writers[w1].locale = writers[w2].locale)
             => ~(writers[w1].pc = "saved" /\ writers[w2].pc = "saved")
    /\ \A q1 \in TransPks, q2 \in TransPks :
          (/\ q1 # q2
           /\ translations[q1].parent_template_id = translations[q2].parent_template_id)
             => translations[q1].locale # translations[q2].locale


\* ================================================== settings that change
\* C13: a call without a locale gives what the call with the
\* settings.LANGUAGE_CODE of that moment as locale gives
OmittedLocaleIsCurrentDefault ==
    res.op = "get_default" =>
        LET r == get_by_name_then_locale(res.args.name, LANGUAGE_CODE)
        IN  /\ res.outcome = r.outcome
            /\ res.ret = r.ret

\* the locale of the record the last resolver call returned
returned_locale ==
    IF res.ret.kind = "template" THEN templates[res.ret.pk].locale
    ELSE translations[res.ret.pk].locale

\* C15: a resolver call that succeeds with a record whose locale is not the
\* lowercased, hyphenated requested locale has logged at least one event
FallbackAlwaysLogged ==
    (/\ res.op = "get"
     /\ res.outcome = "ok"
     /\ returned_locale # lower_replace(res.args.locale_code))
        => Len(res.log) >= 1

====
